---- MODULE Spec2Model ----
(***************************************************************************)
(* NIRF rank predictor: the static prediction engine predictStatic and the *)
(* App component that submits the metric form and shows the report.        *)
(*                                                                         *)
(* Number representation.  The source computes in IEEE-754 doubles.  The   *)
(* metric inputs are the integers 0..100 (the form's number inputs, min 0, *)
(* max 100, default step 1).  On these inputs                              *)
(*   - scores are carried in hundredths (53.5 is 5350); every weight is a  *)
(*     whole number of hundredths, so the decimal score is an integer      *)
(*     number of hundredths, and the double the code holds differs from it *)
(*     by rounding far smaller than the distance (at least 1/30) of        *)
(*     1000 * (1 - normalized) from a rounding boundary of Math.round;     *)
(*   - an attribution (v - BASELINES[k]) * WEIGHTS[k] is carried as its    *)
(*     decimal value in units of 1/200 (dec) together with the offset, in  *)
(*     units in the last place, of the double the multiplication yields    *)
(*     from the double nearest to that decimal value (ulp, one of -1, 0,   *)
(*     1).  Two attributions compare as doubles exactly as 4*dec + ulp     *)
(*     compare as integers.                                                *)
(***************************************************************************)
EXTENDS Integers, Sequences, FiniteSets

VARIABLES
    calls,          \* invocations of predictStatic: [inputs, ret]
    view,           \* App state: 'entry' | 'report'
    institutionName,\* App state: the required name field
    inputs,         \* App state: the five metric fields
    loading,        \* App state
    result,         \* App state: PredictionResult | null
    request,        \* the POST /predict in flight: its body, or NULL
    resultInputs,   \* the request body the displayed result answers (history)
    edits           \* number of field edits made (bounded)

vars == <<calls, view, institutionName, inputs, loading, result, request,
          resultInputs, edits>>

appVars == <<view, institutionName, inputs, loading, result, request,
             resultInputs, edits>>

-----------------------------------------------------------------------------
(* Bounds of the model *)

\* the metric grid has GridSteps + 1 evenly spread values of 0..100
GridSteps == 2

\* field edits per run of the App
MaxEdits == 2

-----------------------------------------------------------------------------
(* Helpers *)

NULL == [null |-> TRUE]

Min(a, b) == IF a <= b THEN a ELSE b

Max(a, b) == IF a >= b THEN a ELSE b

Abs(a) == IF a < 0 THEN -a ELSE a

-----------------------------------------------------------------------------
(* Constants of predictionEngine.ts *)

\* keys of NIRFInputs / WEIGHTS in declaration order (for..in, Object.entries)
Metrics == <<"TLR", "RPC", "GO", "OI", "PR">>

MetricSet == {Metrics[i] : i \in 1..Len(Metrics)}

\* WEIGHTS, in hundredths
WEIGHTS == [TLR |-> 35, RPC |-> 30, GO |-> 15, OI |-> 10, PR |-> 10]

\* BASELINES, in halves (62.5 is 125)
BASELINES == [TLR |-> 125, RPC |-> 95, GO |-> 138, OI |-> 115, PR |-> 100]

\* the bias 2.5 added to the weighted sum, in hundredths
Bias == 250

\* the clamp Math.min(100, ...), in hundredths
MaxScore == 10000

minExpected == 20

maxExpected == 95

totalSamples == 1000

\* the minimum of rankMargin
MinMargin == 5

\* the margin is 0.12 of the estimated rank: 12 hundredths
MarginPct == 12

\* recommendations.slice(0, 5)
MaxRecs == 5

-----------------------------------------------------------------------------
(* Double rounding of the attribution product (v - BASELINES[k]) * WEIGHTS[k] *)
(* for the integers v of 0..100: where the double product lies one unit in    *)
(* the last place above (UlpUp) or below (UlpDown) the double nearest to the  *)
(* decimal value; everywhere else the two are the same double.                *)

UlpUp ==
    [TLR |-> {2, 4, 7, 9, 12, 14, 17, 20, 21, 22, 26, 27, 31, 32, 36, 37, 40,
              41, 43, 46, 48, 51, 53, 54, 57, 59, 61},
     RPC |-> {4, 9, 14, 19, 21, 22, 27, 32, 36, 43, 46},
     GO  |-> {2, 7, 12, 16, 18, 21, 23, 28, 33, 38, 45, 46, 51, 57, 60, 63, 66},
     OI  |-> {59, 61, 66, 67, 69, 72, 74, 77, 78, 83, 84, 88, 89, 93, 94},
     PR  |-> {53, 56, 57, 62, 64, 67, 69, 73, 74, 78, 79, 83, 84, 88, 89, 91,
              96, 98}]

UlpDown ==
    [TLR |-> {64, 66, 68, 71, 72, 74, 77, 79, 82, 84, 85, 88, 89, 93, 94, 98,
              99},
     RPC |-> {49, 52, 59, 63, 68, 73, 74, 76, 81, 86, 91, 96, 98},
     GO  |-> {72, 75, 78, 81, 87, 92, 93, 100},
     OI  |-> {2, 4, 7, 9, 14, 21, 22, 26, 27, 31, 32, 37, 38, 41, 43, 46, 48,
              49, 54, 56},
     PR  |-> {2, 4, 9, 11, 12, 16, 17, 21, 22, 26, 27, 31, 33, 36, 38, 43, 44,
              47}]

\* Number.prototype.toFixed(2) of an attribution's magnitude whose decimal
\* value ends in a 5 in the third place (only TLR's do: its baseline is a
\* half and its weight an odd number of hundredths): the values v at which
\* the double is that decimal or above it, so that toFixed rounds up.
FixedUp ==
    [TLR |-> {0, 5, 10, 15, 25, 30, 35, 45, 50, 55, 60, 65, 70, 75, 80, 90,
              95, 100},
     RPC |-> {}, GO |-> {}, OI |-> {}, PR |-> {}]

\* the double an attribution is, as an integer that orders like it
F64(x) == 4 * x.dec + x.ulp

\* Math.abs(val).toFixed(2), in hundredths, of the attribution x of metric k
\* at input v
ToFixed2(k, v, x) ==
    LET a == Abs(x.dec)
    IN  IF a % 2 = 0 THEN a \div 2
        ELSE IF v \in FixedUp[k] THEN a \div 2 + 1 ELSE a \div 2

-----------------------------------------------------------------------------
(* predictStatic *)

\* 1. the weighted sum, the bias and the clamp (hundredths)
RECURSIVE WeightedSum(_, _)
WeightedSum(inp, i) ==
    IF i = 0 THEN 0
    ELSE WeightedSum(inp, i - 1) + inp[Metrics[i]] * WEIGHTS[Metrics[i]]

\* Score without the clamp of line 42
ScoreUnclamped(inp) == WeightedSum(inp, Len(Metrics)) + Bias

Score(inp) == Min(MaxScore, Max(0, WeightedSum(inp, Len(Metrics)) + Bias))

\* estimatedRank with normalized in place of 1 - normalized
estimatedRankInverted(score) ==
    LET D == 100 * (maxExpected - minExpected)
        n == totalSamples * (score - 100 * minExpected)
    IN  Max(1, (2 * n + D) \div (2 * D))

\* 2. Math.max(1, Math.round(totalSamples * (1 - normalized))) with
\* normalized = (score - minExpected) / (maxExpected - minExpected).
\* With s the score in hundredths and D = 100 * (maxExpected - minExpected),
\* totalSamples * (1 - normalized) = totalSamples * (100*maxExpected - s) / D,
\* and Math.round(x) = floor(x + 1/2).
estimatedRank(score) ==
    LET D == 100 * (maxExpected - minExpected)
        n == totalSamples * (100 * maxExpected - score)
    IN  Max(1, (2 * n + D) \div (2 * D))

\* rankMargin without its minimum of 5
rankMarginNoMinimum(er) == (er * MarginPct) \div 100

\* Math.max(5, Math.floor(estimatedRank * 0.12))
rankMargin(er) == Max(MinMargin, (er * MarginPct) \div 100)

\* rankMin without the clamp at 1
rankMinUnclamped(er) == er - rankMargin(er)

rankMin(er) == Max(1, er - rankMargin(er))

\* rankMax capped at the population size
rankMaxCapped(er) == Min(totalSamples, er + rankMargin(er))

rankMax(er) == er + rankMargin(er)

\* the attribution with the weight applied to the input alone:
\* inputs[k] * WEIGHTS[k] - BASELINES[k]
shapValueUnweightedBaseline(k, v) ==
    [dec |-> 2 * v * WEIGHTS[k] - 100 * BASELINES[k],
     ulp |-> 0]

\* 3. shapValues[k] = (inputs[k] - BASELINES[k]) * WEIGHTS[k]
shapValue(k, v) ==
    [dec |-> (2 * v - BASELINES[k]) * WEIGHTS[k],
     ulp |-> IF v \in UlpUp[k] THEN 1 ELSE IF v \in UlpDown[k] THEN -1 ELSE 0]

shapValues(inp) == [k \in MetricSet |-> shapValue(k, inp[k])]

\* Array.prototype.sort is stable: insertion sort by ascending key, an entry
\* going after the entries of equal key already placed
RECURSIVE InsertSorted(_, _)
InsertSorted(t, x) ==
    IF t = <<>> THEN <<x>>
    ELSE IF t[Len(t)].key <= x.key THEN Append(t, x)
    ELSE Append(InsertSorted(SubSeq(t, 1, Len(t) - 1), x), t[Len(t)])

RECURSIVE SortByKey(_)
SortByKey(s) ==
    IF s = <<>> THEN <<>>
    ELSE InsertSorted(SortByKey(SubSeq(s, 1, Len(s) - 1)), s[Len(s)])

\* 4. Logic A: Object.entries(shapValues).sort((a, b) => a[1] - b[1])
sortedShap(sv) ==
    SortByKey([i \in 1..Len(Metrics) |->
                  [feat |-> Metrics[i], key |-> F64(sv[Metrics[i]])]])

LogicA(inp) ==
    LET sv  == shapValues(inp)
        neg == SelectSeq(sortedShap(sv), LAMBDA e : e.key < 0)
    IN  [i \in 1..Len(neg) |->
            [text |-> "AI Observation", feat |-> neg[i].feat,
             pts  |-> ToFixed2(neg[i].feat, inp[neg[i].feat], sv[neg[i].feat])]]

\* bestFeat with the comparator a[1] - b[1]
bestFeatAscending ==
    SortByKey([i \in 1..Len(Metrics) |->
                  [feat |-> Metrics[i], key |-> 10 * WEIGHTS[Metrics[i]]]])[1].feat

\* Logic B: impacts[k] = 10 * WEIGHTS[k];
\* Object.entries(impacts).sort((a, b) => b[1] - a[1])[0][0]
impacts == [k \in MetricSet |-> 10 * WEIGHTS[k]]

bestFeat ==
    SortByKey([i \in 1..Len(Metrics) |->
                  [feat |-> Metrics[i], key |-> -impacts[Metrics[i]]]])[1].feat

\* topImportance without Math.abs
topImportanceSigned(sv) ==
    SortByKey([i \in 1..Len(Metrics) |->
                  [feat |-> Metrics[i], key |-> -F64(sv[Metrics[i]])]])[1].feat

\* Logic C:
\* Object.entries(shapValues).sort((a, b) => Math.abs(b[1]) - Math.abs(a[1]))[0][0]
topImportance(sv) ==
    SortByKey([i \in 1..Len(Metrics) |->
                  [feat |-> Metrics[i], key |-> -Abs(F64(sv[Metrics[i]]))]])[1].feat

\* the list before the slice
recommendations(inp) ==
    LogicA(inp)
      \o <<[text |-> "ML Recommendation", feat |-> bestFeat]>>
      \o <<[text |-> "Critical Area", feat |-> topImportance(shapValues(inp))]>>

\* the list returned whole
SliceNone(recs) == recs

\* recommendations.slice(0, 5)
Slice(recs) == SubSeq(recs, 1, Min(MaxRecs, Len(recs)))

predictStatic(inp) ==
    LET score == Score(inp)
        er    == estimatedRank(score)
    IN  [predicted_score |-> score,
         rank_range_min  |-> rankMin(er),
         rank_range_max  |-> rankMax(er),
         shap_values     |-> shapValues(inp),
         recommendations |-> Slice(recommendations(inp))]

-----------------------------------------------------------------------------
(* The profiles the model runs on *)

Grid == {(100 * i) \div GridSteps : i \in 0..GridSteps}

\* values next to each baseline, values at which attributions of two metrics
\* coincide, and the form's initial values
Special ==
    [TLR |-> {60, 62, 63},
     RPC |-> {40, 47, 48},
     GO  |-> {54, 67, 69, 70, 71, 84},
     OI  |-> {55, 57, 58},
     PR  |-> {20, 22, 47, 50, 53}]

Values(k) == Grid \cup Special[k]

Profiles == [TLR : Values("TLR"), RPC : Values("RPC"), GO : Values("GO"),
             OI : Values("OI"), PR : Values("PR")]

GridProfiles == [TLR : Grid, RPC : Grid, GO : Grid, OI : Grid, PR : Grid]

\* const [inputs, setInputs] = useState({...})
InitialInputs == [TLR |-> 60, RPC |-> 40, GO |-> 70, OI |-> 55, PR |-> 20]

AppInit ==
    /\ view = "entry"
    /\ institutionName = ""
    /\ inputs = InitialInputs
    /\ loading = FALSE
    /\ result = NULL
    /\ request = NULL
    /\ resultInputs = NULL
    /\ edits = 0

-----------------------------------------------------------------------------
(* One call of predictStatic on each profile *)

Init ==
    /\ \E p \in Profiles : calls = <<[inputs |-> p, ret |-> NULL]>>
    /\ AppInit

\* a call runs to its return
Predict(i) ==
    /\ calls[i].ret = NULL
    /\ calls' = [calls EXCEPT ![i].ret = predictStatic(calls[i].inputs)]
    /\ UNCHANGED appVars

Next == \E i \in DOMAIN calls : Predict(i)

Spec == Init /\ [][Next]_vars

-----------------------------------------------------------------------------
(* Two calls of predictStatic, the first on a profile that is at least the  *)
(* second in every metric                                                   *)

InitPair ==
    /\ \E p \in GridProfiles, q \in GridProfiles :
          /\ \A k \in MetricSet : p[k] >= q[k]
          /\ calls = <<[inputs |-> p, ret |-> NULL], [inputs |-> q, ret |-> NULL]>>
    /\ AppInit

SpecPair == InitPair /\ [][Next]_vars

-----------------------------------------------------------------------------
(* App *)

\* onChange of the name field: setInstitutionName(e.target.value)
SetInstitutionName ==
    /\ view = "entry"
    /\ institutionName = ""
    /\ institutionName' = "Graphic Era Global University"
    /\ UNCHANGED <<calls, view, inputs, loading, result, request, resultInputs,
                   edits>>

\* onChange of a metric field:
\* setInputs(prev => ({ ...prev, [key]: Number(e.target.value) }));
\* the fields are rendered in the entry view, also while loading
EditMetric(k, v) ==
    /\ view = "entry"
    /\ edits < MaxEdits
    /\ inputs[k] # v
    /\ inputs' = [inputs EXCEPT ![k] = v]
    /\ edits' = edits + 1
    /\ UNCHANGED <<calls, view, institutionName, loading, result, request,
                   resultInputs>>

\* handlePredict up to its await: the form submits when its required fields
\* are filled and its submit button is not disabled (disabled={loading});
\* setLoading(true); axios.post(`${API_URL}/predict`, inputs)
handlePredict ==
    /\ view = "entry"
    /\ ~loading
    /\ institutionName # ""
    /\ request = NULL
    /\ loading' = TRUE
    /\ request' = inputs
    /\ UNCHANGED <<calls, view, institutionName, inputs, result, resultInputs,
                   edits>>

\* the await resolves: setResult(data); setView('report'); finally
\* setLoading(false).  The service answers a body with the engine's result.
PredictResolved ==
    /\ request # NULL
    /\ result' = predictStatic(request)
    /\ resultInputs' = request
    /\ view' = "report"
    /\ loading' = FALSE
    /\ request' = NULL
    /\ UNCHANGED <<calls, institutionName, inputs, edits>>

\* the await rejects: console.error, alert; finally setLoading(false)
PredictRejected ==
    /\ request # NULL
    /\ loading' = FALSE
    /\ request' = NULL
    /\ UNCHANGED <<calls, view, institutionName, inputs, result, resultInputs,
                   edits>>

\* 'Modify Parameters': onClick={() => setView('entry')}
ModifyParameters ==
    /\ view = "report"
    /\ view' = "entry"
    /\ UNCHANGED <<calls, institutionName, inputs, loading, result, request,
                   resultInputs, edits>>

InitApp ==
    /\ calls = <<>>
    /\ AppInit

NextApp ==
    \/ SetInstitutionName
    \/ \E k \in MetricSet, v \in Grid : EditMetric(k, v)
    \/ handlePredict
    \/ PredictResolved
    \/ PredictRejected
    \/ ModifyParameters

SpecApp == InitApp /\ [][NextApp]_vars

\* const performanceData = result ? Object.keys(inputs).map(key =>
\*   ({ name: key, value: inputs[key] })) : []
performanceData ==
    IF result = NULL THEN <<>>
    ELSE [i \in 1..Len(Metrics) |-> [name |-> Metrics[i], value |-> inputs[Metrics[i]]]]

-----------------------------------------------------------------------------
(* Properties *)

Returned == {i \in DOMAIN calls : calls[i].ret # NULL}

\* the metrics of negative attribution in a returned result
Deficits(r) == {k \in MetricSet : F64(r.shap_values[k]) < 0}

\* max(1, round(1000 * (1 - (predicted_score - 20) / 75))) of a score in
\* hundredths
RankOfScore(s) == Max(1, (2 * 1000 * (9500 - s) + 7500) \div 15000)

\* 5 when 12% of the rank does not exceed 5, else floor(0.12 * rank)
MarginOfRank(er) == IF 12 * er <= 500 THEN 5 ELSE (12 * er) \div 100

\* C1: for a profile with every metric in [0,100], predicted_score is
\* min(100, max(0, TLR*0.35 + RPC*0.30 + GO*0.15 + OI*0.10 + PR*0.10 + 2.5)),
\* lies in [0,100], and is the weighted sum plus 2.5 whenever that lies in
\* [0,100] (scores in hundredths).
C1_ScoreClamped ==
    \A i \in Returned :
        LET p   == calls[i].inputs
            raw == 35 * p.TLR + 30 * p.RPC + 15 * p.GO + 10 * p.OI + 10 * p.PR + 250
            s   == calls[i].ret.predicted_score
        IN  (\A k \in MetricSet : p[k] \in 0..100) =>
                /\ s = Min(10000, Max(0, raw))
                /\ s \in 0..10000
                /\ (raw \in 0..10000 => s = raw)

\* C1 witness: a returned call whose weighted sum plus 2.5 exceeds 100 and
\* whose score is the cap.
C1_Witness ==
    \E i \in Returned :
        LET p == calls[i].inputs
        IN  /\ 35 * p.TLR + 30 * p.RPC + 15 * p.GO + 10 * p.OI + 10 * p.PR + 250 > 10000
            /\ calls[i].ret.predicted_score = 10000

\* C2 as stated: rank_range_max - rank_range_min >= 10 for every profile, the
\* width being twice the margin (5, or floor(0.12 * estimatedRank) when 12% of
\* the estimated rank exceeds 5).
C2_WidthAtLeastTen ==
    \A i \in Returned :
        LET r  == calls[i].ret
            er == RankOfScore(r.predicted_score)
        IN  /\ r.rank_range_max - r.rank_range_min >= 10
            /\ r.rank_range_max - r.rank_range_min = 2 * MarginOfRank(er)

\* C2 amended: the width is twice the margin, and so at least 10, when the
\* estimated rank is at least 6; when the estimated rank is at most 5 the lower
\* end is clamped at 1 and the width is estimatedRank + 4, less than 10.
C2_WidthUnlessClamped ==
    \A i \in Returned :
        LET r  == calls[i].ret
            er == RankOfScore(r.predicted_score)
            w  == r.rank_range_max - r.rank_range_min
        IN  /\ er >= 6 => w = 2 * MarginOfRank(er) /\ w >= 10
            /\ er <= 5 => w = er + 4 /\ w < 10 /\ r.rank_range_min = 1

\* C2 witness: a returned call whose estimated rank is at most 5.
C2_Witness ==
    \E i \in Returned :
        /\ RankOfScore(calls[i].ret.predicted_score) <= 5
        /\ calls[i].ret.rank_range_max - calls[i].ret.rank_range_min < 10

\* C3: rank_range_min <= estimatedRank <= rank_range_max and
\* rank_range_min >= 1, estimatedRank being
\* max(1, round(1000 * (1 - (predicted_score - 20) / 75))).
C3_RankInsideRange ==
    \A i \in Returned :
        LET r  == calls[i].ret
            er == RankOfScore(r.predicted_score)
        IN  /\ r.rank_range_min <= er
            /\ er <= r.rank_range_max
            /\ r.rank_range_min >= 1

\* C3 witness: a returned call whose estimated rank less its margin is below 1.
C3_Witness ==
    \E i \in Returned :
        LET er == RankOfScore(calls[i].ret.predicted_score)
        IN  /\ er - MarginOfRank(er) < 1
            /\ calls[i].ret.rank_range_min = 1

\* C4: the recommendations are the first 5 of A ++ [B] ++ [C]: with d deficit
\* metrics the list has min(5, d + 2) entries, the first d are one observation
\* for each deficit metric, most negative first, then the highest-return
\* recommendation if d <= 4 and the dominant-driver one if d <= 3.
C4_RecommendationList ==
    \A i \in Returned :
        LET r    == calls[i].ret
            recs == r.recommendations
            d    == Cardinality(Deficits(r))
        IN  /\ Len(recs) = Min(5, d + 2)
            /\ Len(recs) <= 5
            /\ \A n \in 1..d :
                  /\ recs[n].text = "AI Observation"
                  /\ recs[n].feat \in Deficits(r)
            /\ \A m, n \in 1..d :
                  m < n => /\ recs[m].feat # recs[n].feat
                           /\ F64(r.shap_values[recs[m].feat])
                                 <= F64(r.shap_values[recs[n].feat])
            /\ d <= 4 => recs[d + 1].text = "ML Recommendation"
            /\ d <= 3 => recs[d + 2].text = "Critical Area"
            /\ d >= 4 => \A n \in 1..Len(recs) : recs[n].text # "Critical Area"
            /\ d = 5 => \A n \in 1..Len(recs) : recs[n].text = "AI Observation"

\* C4 witness: a returned call with four deficit metrics: five entries, the
\* last the highest-return recommendation.
C4_Witness ==
    \E i \in Returned :
        /\ Cardinality(Deficits(calls[i].ret)) = 4
        /\ Len(calls[i].ret.recommendations) = 5
        /\ calls[i].ret.recommendations[5].text = "ML Recommendation"

RECURSIVE SumDec(_, _)
SumDec(sv, i) == IF i = 0 THEN 0 ELSE SumDec(sv, i - 1) + sv[Metrics[i]].dec

\* twice the sum of value * weight (weights in hundredths): units of 1/200
TwiceWeighted(p) ==
    2 * (35 * p.TLR + 30 * p.RPC + 15 * p.GO + 10 * p.OI + 10 * p.PR)

\* C5 as stated: the attributions sum to the weighted score less the baseline
\* score 58.225 (11645 in units of 1/200).
C5_SumLessBaseline58 ==
    \A i \in Returned :
        SumDec(calls[i].ret.shap_values, Len(Metrics))
            = TwiceWeighted(calls[i].inputs) - 11645

\* C5 amended: the attributions sum to the unclamped, unbiased weighted score
\* less the baseline score 57.225 (11445 in units of 1/200), the sum of
\* baseline * weight; neither the bias nor the clamp enters.
C5_SumLessBaseline ==
    \A i \in Returned :
        /\ SumDec(calls[i].ret.shap_values, Len(Metrics))
              = TwiceWeighted(calls[i].inputs) - 11445
        /\ 11445 = 125 * 35 + 95 * 30 + 138 * 15 + 115 * 10 + 100 * 10

\* C5 witness: a returned call whose score was clamped, so that the score is
\* not the weighted sum plus the bias.
C5_Witness ==
    \E i \in Returned :
        /\ 2 * calls[i].ret.predicted_score # TwiceWeighted(calls[i].inputs) + 500
        /\ SumDec(calls[i].ret.shap_values, Len(Metrics)) > 0

\* the metric the dominant-driver recommendation names: the entry of the list
\* when the slice keeps it, else the one computed
CriticalArea(c) ==
    IF Cardinality(Deficits(c.ret)) <= 3
    THEN c.ret.recommendations[Len(c.ret.recommendations)].feat
    ELSE topImportance(shapValues(c.inputs))

Index(k) == CHOOSE i \in 1..Len(Metrics) : Metrics[i] = k

\* C6: the dominant-driver recommendation names a metric whose absolute
\* attribution is the maximum over the five, whatever its sign, and the
\* earliest such metric in the order TLR, RPC, GO, OI, PR.
C6_DominantDriver ==
    \A i \in Returned :
        LET sv == calls[i].ret.shap_values
            t  == CriticalArea(calls[i])
        IN  /\ \A k \in MetricSet : Abs(F64(sv[t])) >= Abs(F64(sv[k]))
            /\ \A k \in MetricSet :
                  Index(k) < Index(t) => Abs(F64(sv[k])) < Abs(F64(sv[t]))

\* C6 witness: a returned call in which two metrics of opposite sign share the
\* maximum absolute attribution and the list names the earlier one.
C6_Witness ==
    \E i \in Returned :
        LET sv == calls[i].ret.shap_values
            t  == CriticalArea(calls[i])
        IN  /\ Cardinality(Deficits(calls[i].ret)) <= 3
            /\ \E k \in MetricSet :
                  /\ k # t
                  /\ F64(sv[k]) = -F64(sv[t])
                  /\ F64(sv[k]) > 0

AllZero == [k \in MetricSet |-> 0]

\* C7: on the profile of five zeros predicted_score is 2.5, the estimated rank
\* exceeds totalSamples = 1000, rank_range_max is the estimated rank plus the
\* margin and exceeds 1000, and rank_range_min >= 1.
C7_AllZeroBoundary ==
    \A i \in Returned :
        calls[i].inputs = AllZero =>
            LET r  == calls[i].ret
                er == RankOfScore(r.predicted_score)
            IN  /\ r.predicted_score = 250
                /\ er > 1000
                /\ r.rank_range_max = er + MarginOfRank(er)
                /\ r.rank_range_max > 1000
                /\ r.rank_range_min >= 1

\* C7 witness: the call on five zeros has returned.
C7_Witness ==
    \E i \in Returned :
        /\ calls[i].inputs = AllZero
        /\ calls[i].ret.rank_range_max = 1380

\* C8: the highest-return recommendation names the metric of largest gain
\* 10 * weight, and that metric is TLR on every profile.
C8_HighestReturnIsTLR ==
    \A i \in Returned :
        LET r == calls[i].ret
            d == Cardinality(Deficits(r))
        IN  /\ bestFeat = "TLR"
            /\ \A k \in MetricSet : 10 * WEIGHTS[k] <= 10 * WEIGHTS[bestFeat]
            /\ d <= 4 => r.recommendations[d + 1]
                            = [text |-> "ML Recommendation", feat |-> "TLR"]

\* C8 witness: a returned call on a profile whose TLR is already 100 and
\* whose list names TLR as the highest-return metric.
C8_Witness ==
    \E i \in Returned :
        /\ calls[i].inputs.TLR = 100
        /\ \E n \in 1..Len(calls[i].ret.recommendations) :
              calls[i].ret.recommendations[n]
                  = [text |-> "ML Recommendation", feat |-> "TLR"]

\* C9: for two profiles p, q with every metric of p at least that of q,
\* predicted_score(p) >= predicted_score(q), rank_range_min(p) <=
\* rank_range_min(q) and rank_range_max(p) <= rank_range_max(q).
C9_RankBandMonotone ==
    \A i, j \in Returned :
        (\A k \in MetricSet : calls[i].inputs[k] >= calls[j].inputs[k]) =>
            /\ calls[i].ret.predicted_score >= calls[j].ret.predicted_score
            /\ calls[i].ret.rank_range_min <= calls[j].ret.rank_range_min
            /\ calls[i].ret.rank_range_max <= calls[j].ret.rank_range_max

\* C9 witness: two returned calls, the first on a profile raised in some
\* metric, with a strictly better band at both ends.
C9_Witness ==
    \E i, j \in Returned :
        /\ \A k \in MetricSet : calls[i].inputs[k] >= calls[j].inputs[k]
        /\ calls[i].inputs # calls[j].inputs
        /\ calls[i].ret.rank_range_min < calls[j].ret.rank_range_min
        /\ calls[i].ret.rank_range_max < calls[j].ret.rank_range_max

\* C10: whenever the report is shown, the metrics the Metric Performance chart
\* draws are the ones sent in the request the displayed result answers.
C10_ReportShowsSentInputs ==
    view = "report" =>
        \A i \in 1..Len(Metrics) :
            performanceData[i].value = resultInputs[Metrics[i]]

====
